---- MODULE Spec2Model ----
(***************************************************************************)
(* Verification model of the chunking-and-filtered-retrieval core of the   *)
(* financial news platform:                                                *)
(*   - TextChunker            (src/apps/index/chunk.py)                    *)
(*   - IndexBuilder           (src/apps/index/build_index_aws.py)          *)
(*   - SearchService          (src/apps/service/search_api.py)             *)
(*   - FAISSStore             (src/apps/index/faiss_store.py)              *)
(*   - IncrementalIndexBuilder (src/scripts/build_index_incremental.py)    *)
(*   - IndexingPipeline       (src/apps/index/run_index.py)                *)
(*                                                                         *)
(* Text is modelled at token level: a text is the sequence of its tokens,  *)
(* a token carries the blank that precedes it, so joining two texts with a *)
(* blank is concatenation and the token count of a text is its length.     *)
(* A token is a number  tag*10000 + sentence*1000 + position, which makes  *)
(* the tokens of different sentences and documents distinct.  A character  *)
(* is one token, or two when the byte-pair encoding splits its bytes: the  *)
(* second token of such a character has a position of 500 and above.       *)
(***************************************************************************)
EXTENDS Integers, Sequences, FiniteSets, TLC

VARIABLES
    \* ---- TextChunker.split_text ----
    cfg,        \* the chunker's configuration (target, max, overlap, min_tokens)
    body,       \* the text argument of split_text, as its lines
    title,      \* the title argument of split_text
    sents,      \* the sentences of the text, as _split_sentences returns them
    raw,        \* the chunks as they are before _handle_orphan_chunks
    chunks,     \* the chunks split_text returns
    cpc,        \* "ready" before the call, "done" after it
    \* ---- IndexBuilder.build_index ----
    scanned,    \* the documents in the order the table scan delivered them
    art,        \* the artifacts of the build (chunks, metadata table, embeddings)
    bpc,        \* "loading" / "built"
    \* ---- publication: IndexBuilder and IncrementalIndexBuilder on S3 ----
    table,      \* the documents of the DynamoDB table
    s3,         \* the objects under faiss/ and the version latest.json names
    run,        \* the build that is running, and what the earlier ones did
    calls,      \* the search calls that run concurrently, one per thread
    \* ---- SearchService ----
    svc,        \* the loaded service: index, vecs, row_meta, inv_ticker, inv_date
    req,        \* the last search request
    resp,       \* the response of the last search
    \* ---- FAISSStore ----
    store,      \* the store object: index vectors and metadata list
    disk,       \* the files of index_dir
    saved,      \* history: the store as it was at the last save_index
    outcome     \* how the last store operation ended

vars == <<cfg, body, title, sents, raw, chunks, cpc, scanned, art, bpc,
          table, s3, run, calls, svc, req, resp,
          store, disk, saved, outcome>>

chunkVars  == <<cfg, body, title, sents, raw, chunks, cpc>>
buildVars  == <<scanned, art, bpc>>
publishVars == <<table, s3, run>>
searchVars == <<svc, req, resp, calls>>
storeVars  == <<store, disk, saved, outcome>>

Max2(a, b) == IF a >= b THEN a ELSE b
Min2(a, b) == IF a <= b THEN a ELSE b

(***************************************************************************)
(*                       TextChunker  (chunk.py)                           *)
(***************************************************************************)

\* Bound of the model: the number of sentences of a text.
MaxSents == 3

\* The margin of the donor's safety floor, max(0, target_tokens - 40).
SafeFloorMargin == 40

\* Token lengths a sentence of the model can have.
SentLens == {1, 2, 3, 4, 45}

\* Configurations of the model; the constructor stores what it is given.
CfgTargets  == {2, 42}
CfgMaxes    == {3, 4, 46}
CfgOverlaps == {0, 1, 2}
CfgMins     == {1, 2, 3, 4}

Configs == [target : CfgTargets, max : CfgMaxes, overlap : CfgOverlaps, min_tokens : CfgMins]

\* The configuration ordering the specification requires.
ValidOrder(c) ==
    /\ 0 <= c.overlap
    /\ c.overlap < c.min_tokens
    /\ c.min_tokens <= c.target
    /\ c.target <= c.max

\* The tokens of sentence i (of length len) of the text tagged tag.
SentTokens(tag, i, len) == [k \in 1..len |-> tag * 10000 + i * 1000 + k]

\* The sentence lists of the model, given by the lengths of the sentences.
SentLenSeqs == UNION {[1..n -> SentLens] : n \in 0..MaxSents}

Sentences(tag, lens) == [i \in 1..Len(lens) |-> SentTokens(tag, i, lens[i])]

\* _tok_len: the number of tokens of a text.
TokLen(s) == Len(s)

\* The sentence i of the text tagged tag that has two characters, the second
\* of them encoded as two tokens.
SplitCharSentence(tag, i) ==
    <<tag * 10000 + i * 1000 + 1, tag * 10000 + i * 1000 + 2, tag * 10000 + i * 1000 + 502>>

\* The token holds the last bytes of a character whose first bytes are in the
\* token before it.
IsContinuation(tok) == (tok % 1000) \in 500..599

\* The token of U+FFFD, the character that stands for bytes that are not
\* valid UTF-8.
ReplacementChar == 9 * 1000 + 998

\* ENC.decode: the text of the tokens.  Bytes that are not a character (the
\* last bytes of one whose first bytes are missing) are decoded as U+FFFD.
Decode(toks) ==
    IF toks # <<>> /\ IsContinuation(Head(toks))
    THEN <<ReplacementChar>> \o Tail(toks)
    ELSE toks

\* len(text): the number of characters of a text.
CharLen(text) ==
    Cardinality({k \in 1..Len(text) : ~IsContinuation(text[k])})

\* text[:-n] for n > 0: the text without its last n characters.
RECURSIVE DropChars(_, _)
DropChars(text, n) ==
    IF n = 0 \/ text = <<>> THEN text
    ELSE LET last == text[Len(text)]
             rest == SubSeq(text, 1, Len(text) - 1)
         IN  DropChars(rest, IF IsContinuation(last) THEN n ELSE n - 1)

\* _tail_tokens: the last n_tokens tokens of a text, decoded.
TailTokens(text, n_tokens) ==
    Decode(SubSeq(text, Max2(0, Len(text) - n_tokens) + 1, Len(text)))

\* " ".join(cur)
RECURSIVE Join(_)
Join(parts) ==
    IF parts = <<>> THEN <<>> ELSE Head(parts) \o Join(Tail(parts))

\* text[:-len(borrowed_text)].strip(): the slice counts characters.
DropTail(text, borrowed_text) ==
    IF CharLen(borrowed_text) = 0 THEN <<>>
    ELSE DropChars(text, CharLen(borrowed_text))

\* _generate_chunk_id: a hash of (doc_id, chunk_index).
GenerateChunkId(doc_id, chunk_index) == <<doc_id, chunk_index>>

\* _create_chunk
CreateChunk(text, doc_id, chunk_index) ==
    [id          |-> GenerateChunkId(doc_id, chunk_index),
     doc_id      |-> doc_id,
     chunk_index |-> chunk_index,
     text        |-> text,
     tokens      |-> TokLen(text)]

\* The state of the loop of split_text before the first sentence.
LoopInit == [chunks |-> <<>>, cur |-> <<>>, cur_tok |-> 0, idx |-> 0]

\* A plausible slip: the sentence that does not fit is put into the chunk that
\* is closed.
LoopStepClosesAfter(c, doc_id, st, s) ==
    LET sl == TokLen(s) IN
    IF st.cur # <<>> /\ st.cur_tok + sl > c.max
    THEN LET chunk_text == Join(Append(st.cur, s))
             closed     == Append(st.chunks, CreateChunk(chunk_text, doc_id, st.idx))
         IN  [chunks |-> closed, cur |-> <<>>, cur_tok |-> 0, idx |-> st.idx + 1]
    ELSE [chunks |-> st.chunks, cur |-> Append(st.cur, s),
          cur_tok |-> st.cur_tok + sl, idx |-> st.idx]

\* One pass of the loop "for s in sents".
LoopStep(c, doc_id, st, s) ==
    LET sl == TokLen(s) IN
    IF st.cur # <<>> /\ st.cur_tok + sl > c.max
    THEN LET chunk_text == Join(st.cur)
             closed     == Append(st.chunks, CreateChunk(chunk_text, doc_id, st.idx))
             tail       == TailTokens(chunk_text, c.overlap)
         IN  IF c.overlap > 0
             THEN [chunks |-> closed, cur |-> <<tail, s>>,
                   cur_tok |-> TokLen(tail) + sl, idx |-> st.idx + 1]
             ELSE [chunks |-> closed, cur |-> <<s>>,
                   cur_tok |-> sl, idx |-> st.idx + 1]
    ELSE [chunks |-> st.chunks, cur |-> Append(st.cur, s),
          cur_tok |-> st.cur_tok + sl, idx |-> st.idx]

RECURSIVE Loop(_, _, _, _, _)
Loop(c, doc_id, ss, i, st) ==
    IF i > Len(ss) THEN st
    ELSE Loop(c, doc_id, ss, i + 1, LoopStep(c, doc_id, st, ss[i]))

\* The last open buffer is emitted as the final chunk ("if cur:").
FlushLast(doc_id, st) ==
    IF st.cur # <<>>
    THEN Append(st.chunks, CreateChunk(Join(st.cur), doc_id, st.idx))
    ELSE st.chunks

\* The chunks of split_text before orphan repair.
RawChunks(c, ss, doc_id) == FlushLast(doc_id, Loop(c, doc_id, ss, 1, LoopInit))

\* The number of tokens _handle_orphan_chunks borrows for the last chunk.
Give(c, cs) ==
    LET n    == Len(cs)
        need == c.min_tokens - cs[n].tokens
        safe_prev_floor == Max2(0, c.target - SafeFloorMargin)
        can_give == Max2(0, cs[n - 1].tokens - safe_prev_floor)
    IN  Min2(need, can_give)

\* A plausible slip: the merge test is "<" instead of "<=".
HandleOrphanChunksStrictMerge(c, cs) ==
    LET n == Len(cs) IN
    IF n < 2 THEN cs
    ELSE
    LET last_chunk == cs[n]
        prev_chunk == cs[n - 1]
    IN  IF ~(last_chunk.tokens < c.min_tokens) THEN cs
        ELSE
        LET give == Give(c, cs) IN
        IF ~(give > 0) THEN cs
        ELSE
        LET borrowed_text == TailTokens(prev_chunk.text, give + c.overlap)
            new_last_text == borrowed_text \o last_chunk.text
            prev_text     == DropTail(prev_chunk.text, borrowed_text)
            prev2 == [prev_chunk EXCEPT !.text = prev_text, !.tokens = TokLen(prev_text)]
            last2 == [last_chunk EXCEPT !.text = new_last_text,
                                        !.tokens = TokLen(new_last_text)]
        IN  IF prev2.tokens + last2.tokens < c.max
            THEN LET merged_text == prev2.text \o last2.text IN
                 [i \in 1..(n - 1) |->
                     IF i = n - 1
                     THEN [prev2 EXCEPT !.text = merged_text,
                                        !.tokens = TokLen(merged_text)]
                     ELSE cs[i]]
            ELSE [i \in 1..n |->
                     IF i = n - 1 THEN prev2
                     ELSE IF i = n THEN last2
                     ELSE cs[i]]

\* _handle_orphan_chunks
HandleOrphanChunks(c, cs) ==
    LET n == Len(cs) IN
    IF n < 2 THEN cs
    ELSE
    LET last_chunk == cs[n]
        prev_chunk == cs[n - 1]
    IN  IF ~(last_chunk.tokens < c.min_tokens) THEN cs
        ELSE
        LET give == Give(c, cs) IN
        IF ~(give > 0) THEN cs
        ELSE
        LET borrowed_text == TailTokens(prev_chunk.text, give + c.overlap)
            new_last_text == borrowed_text \o last_chunk.text
            prev_text     == DropTail(prev_chunk.text, borrowed_text)
            prev2 == [prev_chunk EXCEPT !.text = prev_text, !.tokens = TokLen(prev_text)]
            last2 == [last_chunk EXCEPT !.text = new_last_text,
                                        !.tokens = TokLen(new_last_text)]
        IN  IF prev2.tokens + last2.tokens <= c.max
            THEN LET merged_text == prev2.text \o last2.text IN
                 [i \in 1..(n - 1) |->
                     IF i = n - 1
                     THEN [prev2 EXCEPT !.text = merged_text,
                                        !.tokens = TokLen(merged_text)]
                     ELSE cs[i]]
            ELSE [i \in 1..n |->
                     IF i = n - 1 THEN prev2
                     ELSE IF i = n THEN last2
                     ELSE cs[i]]

\* A plausible slip: enumerate(chunks, 1).
RenumberFromOne(cs) ==
    [i \in 1..Len(cs) |-> [cs[i] EXCEPT !.chunk_index = i, !.tokens = TokLen(cs[i].text)]]

\* "for i, c in enumerate(chunks): c.chunk_index = i; c.tokens = _tok_len(c.text)"
Renumber(cs) ==
    [i \in 1..Len(cs) |-> [cs[i] EXCEPT !.chunk_index = i - 1, !.tokens = TokLen(cs[i].text)]]

\* split_text, from the sentence list on.
SplitText(c, ss, doc_id) == Renumber(HandleOrphanChunks(c, RawChunks(c, ss, doc_id)))

\* What orphan repair did to the chunks cs: "none", "borrowed" or "merged".
OrphanOutcome(c, cs) ==
    IF Len(cs) < 2 \/ ~(cs[Len(cs)].tokens < c.min_tokens) \/ ~(Give(c, cs) > 0)
    THEN "none"
    ELSE IF Len(HandleOrphanChunks(c, cs)) < Len(cs) THEN "merged" ELSE "borrowed"

ChunkDocId == "doc"

\* The lines of a text: blank lines, lines BOILERPLATE_PAT matches, and lines
\* of content, which hold sentences.
BlankLine  == [kind |-> "blank", sents |-> <<>>]
BoilerLine(tag) == [kind |-> "boilerplate", sents |-> <<SentTokens(tag, 9, 2)>>]
ContentLine(ss) == [kind |-> "content", sents |-> ss]

\* The text arguments of the model: the empty text, a whitespace-only text,
\* a text of boilerplate only, and the texts of one to MaxSents sentences,
\* with or without blank and boilerplate lines around them.
Bodies(tag) ==
    {<<>>, <<BlankLine>>, <<BlankLine, BlankLine>>, <<BoilerLine(tag)>>}
    \cup {<<ContentLine(Sentences(tag, lens))>> : lens \in SentLenSeqs \ {<<>>}}
    \cup {<<BlankLine, ContentLine(Sentences(tag, <<len>>)), BoilerLine(tag)>> :
             len \in SentLens}
    \cup {<<ContentLine(<<SplitCharSentence(tag, 1), SentTokens(tag, 2, 1)>>)>>}

\* The title arguments of the model: "" (the default), a whitespace-only
\* title, and a title of two tokens that ends without sentence punctuation.
NoTitle == [given |-> FALSE, tokens |-> <<>>]
Titles(tag) ==
    {NoTitle, [given |-> TRUE, tokens |-> <<>>],
     [given |-> TRUE, tokens |-> SentTokens(tag, 0, 2)]}

\* The token of the separator " —— " between title and text.
SepToken(tag) == tag * 10000 + 999

IsContent(ln) == ln.kind = "content"

\* clean_body: the lines that are neither blank nor boilerplate.
CleanBody(lines) == SelectSeq(lines, IsContent)

\* _split_sentences on the cleaned text: the sentences of its lines.
RECURSIVE SplitSentences(_)
SplitSentences(lines) ==
    IF lines = <<>> THEN <<>>
    ELSE Head(lines).sents \o SplitSentences(Tail(lines))

\* "if title: text = (title.strip() + " —— " + (text or "")).strip()", seen on
\* the sentences: title and separator open the first sentence, and are a
\* sentence of their own when the cleaned text is empty.
PrependTitle(tag, ttl, ss) ==
    IF ~ttl.given THEN ss
    ELSE LET prefix == ttl.tokens \o <<SepToken(tag)>>
         IN  IF ss = <<>> THEN <<prefix>>
             ELSE <<prefix \o Head(ss)>> \o Tail(ss)

\* The text is empty or consists of whitespace only.
IsBlankText(lines) == \A i \in 1..Len(lines) : lines[i].kind = "blank"

InitChunk ==
    /\ cfg \in Configs
    /\ body \in Bodies(0)
    /\ title \in Titles(0)
    /\ sents = <<>>
    /\ raw = <<>>
    /\ chunks = <<>>
    /\ cpc = "ready"

\* The call chunker.split_text(text, doc_id, title).
DoSplitText ==
    /\ cpc = "ready"
    /\ LET ss == PrependTitle(0, title, SplitSentences(CleanBody(body)))
       IN  /\ sents' = ss
           /\ raw' = RawChunks(cfg, ss, ChunkDocId)
           /\ chunks' = SplitText(cfg, ss, ChunkDocId)
    /\ cpc' = "done"
    /\ UNCHANGED <<cfg, body, title>>

\* Bound of the model: the number of chunks _handle_orphan_chunks is given.
MaxChunks == 3

\* The chunk lists of the model, given by the token lengths of the chunks, as
\* _create_chunk makes them: chunk_index 0, 1, ... and tokens = _tok_len(text).
ChunkLists(tag, doc_id) ==
    {[i \in 1..Len(lens) |-> CreateChunk(SentTokens(tag, i, lens[i]), doc_id, i - 1)] :
        lens \in UNION {[1..n -> SentLens] : n \in 0..MaxChunks}}

\* The configurations _handle_orphan_chunks is checked under: those of the
\* model and one whose overlap and minimum are large against the margin of
\* the safety floor.
OrphanConfigs ==
    Configs \cup {[target |-> 42, max |-> 46, overlap |-> 22, min_tokens |-> 24]}

\* _handle_orphan_chunks is given any chunk list of the model.
InitOrphan ==
    /\ cfg \in OrphanConfigs
    /\ body = <<>>
    /\ title = NoTitle
    /\ sents = <<>>
    /\ raw \in ChunkLists(0, ChunkDocId)
    /\ chunks = <<>>
    /\ cpc = "chunked"

\* The end of split_text: _handle_orphan_chunks on the chunks of the loop,
\* then the renumbering.
DoOrphanRepair ==
    /\ cpc = "chunked"
    /\ chunks' = Renumber(HandleOrphanChunks(cfg, raw))
    /\ cpc' = "done"
    /\ UNCHANGED <<cfg, body, title, sents, raw>>

(***************************************************************************)
(*                 IndexBuilder  (build_index_aws.py)                      *)
(***************************************************************************)

\* Bound of the model: the number of documents of the table.
MaxDocs == 3

\* The documents' ids; their order as numbers stands for the order of the
\* doc_id strings.
DocIds == 1..MaxDocs

\* The sentence lengths of a document's title-prefixed text: a text of one
\* chunk and a text of two chunks under the builder's chunker.
DocShapes == {<<100>>, <<300, 300>>}

\* self.chunker = TextChunker(360, 460, 40, 200)
BuilderChunker == [target |-> 360, max |-> 460, overlap |-> 40, min_tokens |-> 200]

\* embedder.encode: an opaque function of the text; the vector of the model
\* records what identifies the text (first token, last token, length).
Embed(text) ==
    IF text = <<>> THEN <<0, 0, 0>>
    ELSE <<text[1], text[Len(text)], Len(text)>>

\* The sort key of chunk_metadata.sort: (doc_id, chunk_index).
MetaKeyLess(a, b) ==
    \/ a.doc_id < b.doc_id
    \/ a.doc_id = b.doc_id /\ a.chunk_index < b.chunk_index

\* list.sort: a stable sort, here by insertion.
RECURSIVE InsertSorted(_, _)
InsertSorted(sorted, m) ==
    IF sorted = <<>> THEN <<m>>
    ELSE IF MetaKeyLess(m, sorted[Len(sorted)])
         THEN Append(InsertSorted(SubSeq(sorted, 1, Len(sorted) - 1), m),
                     sorted[Len(sorted)])
         ELSE Append(sorted, m)

RECURSIVE SortByDocAndIndex(_)
SortByDocAndIndex(ms) ==
    IF ms = <<>> THEN <<>>
    ELSE InsertSorted(SortByDocAndIndex(SubSeq(ms, 1, Len(ms) - 1)), ms[Len(ms)])

\* The chunks of every document, in the order of docs ("all_chunks").
RECURSIVE AllChunks(_)
AllChunks(docs) ==
    IF docs = <<>> THEN <<>>
    ELSE SplitText(BuilderChunker,
                   Sentences(Head(docs).doc_id, Head(docs).lens),
                   Head(docs).doc_id)
         \o AllChunks(Tail(docs))

\* The metadata record _process_documents prepares for a chunk.
ChunkMeta(chunk) ==
    [chunk_id    |-> chunk.id,
     doc_id      |-> chunk.doc_id,
     chunk_index |-> chunk.chunk_index,
     tokens      |-> chunk.tokens,
     row_index   |-> -1]

\* "for i, meta in enumerate(chunk_metadata): meta['row_index'] = i"
AddRowIndex(ms) == [i \in 1..Len(ms) |-> [ms[i] EXCEPT !.row_index = i - 1]]

\* _process_documents: (all_chunks, chunk_metadata)
ProcessDocuments(docs) ==
    LET all_chunks == AllChunks(docs)
        metas      == [i \in 1..Len(all_chunks) |-> ChunkMeta(all_chunks[i])]
    IN  [chunks   |-> all_chunks,
         metadata |-> AddRowIndex(SortByDocAndIndex(metas))]

\* _embed_chunks: row i is the embedding of chunks[i].text (the cache maps a
\* text to the vector the embedder gave for it).
EmbedChunks(cs) == [i \in 1..Len(cs) |-> Embed(cs[i].text)]

InitBuild ==
    /\ scanned = <<>>
    /\ art = [built |-> FALSE]
    /\ bpc = "loading"

ScannedIds == {scanned[i].doc_id : i \in 1..Len(scanned)}

\* _load_documents_from_dynamodb: the scan delivers the next item; the table
\* gives the items in no particular order.
ScanDocument ==
    /\ bpc = "loading"
    /\ \E d \in DocIds \ ScannedIds, shape \in DocShapes :
           scanned' = Append(scanned, [doc_id |-> d, lens |-> shape])
    /\ UNCHANGED <<art, bpc>>

\* build_index, steps 2 to 6: process, embed, build the index (its rows are
\* the rows of the embeddings matrix), write the artifacts.
BuildIndex ==
    /\ bpc = "loading"
    /\ scanned # <<>>
    /\ LET pd         == ProcessDocuments(scanned)
           embeddings == EmbedChunks(pd.chunks)
       IN  art' = [built      |-> TRUE,
                   chunks     |-> pd.chunks,
                   metadata   |-> pd.metadata,
                   embeddings |-> embeddings,
                   index      |-> embeddings]
    /\ bpc' = "built"
    /\ UNCHANGED scanned

(***************************************************************************)
(*                  SearchService  (search_api.py)                         *)
(*                                                                         *)
(* Rows are numbered from 0.  A timestamp string that parses is modelled   *)
(* as a record [form |-> "iso", day, hour, off]: the calendar day and hour *)
(* it names, in the UTC offset (hours) it carries; calendar days are       *)
(* numbered.  NoStamp is the empty string (or None), BadStamp a string     *)
(* that does not parse.                                                    *)
(***************************************************************************)

\* Bound of the model: the number of rows of a published index.
MaxRows == 3

\* Bound of the model: the largest top_k of a request.
MaxTopK == 3

\* The ceiling of the candidate set: 5000 in the source, scaled to the
\* indexes of the model.
CandidateCap == 2

RowTickerLists == {<<"AAPL">>, <<"TSLA">>}
NoStamp  == [form |-> "empty", day |-> 0, hour |-> 0, off |-> 0]
BadStamp == [form |-> "bad", day |-> 0, hour |-> 0, off |-> 0]
Stamp(day, hour, off) == [form |-> "iso", day |-> day, hour |-> hour, off |-> off]

RowStamps      == {Stamp(10, 12, 0), Stamp(20, 12, 0)}

\* The embeddings matrices of the model for n rows: unit vectors that
\* alternate, starting with either.
EmbeddingMatrices(n) ==
    {[r \in 0..(n - 1) |-> IF (r + phase) % 2 = 0 THEN <<1, 0>> ELSE <<0, 1>>] :
        phase \in {0, 1}}

ReqTickerLists == {<<>>, <<"AAPL">>, <<"MSFT">>}
ReqStamps      == {NoStamp, BadStamp, Stamp(11, 9, 0)}
ReqWindows     == {0, 1}
QueryVectors   == {<<1, 0>>, <<1, 1>>}

Range(f) == {f[x] : x \in DOMAIN f}

\* The search requests of the model.  A request with use_filter false gives
\* no filter, and the window varies only with a timestamp that parses: the
\* code reads neither otherwise.
Requests ==
    {r \in [kind : {"search"}, query_vector : QueryVectors, tickers : ReqTickerLists,
            published_utc : ReqStamps, use_filter : BOOLEAN,
            time_window_days : ReqWindows, top_k : 1..MaxTopK] :
        /\ ~r.use_filter => (r.tickers = <<>> /\ r.published_utc.form = "empty")
        /\ r.published_utc.form # "iso" => r.time_window_days = 1}

\* sorted(list(candidates))
RECURSIVE SortedList(_)
SortedList(S) ==
    IF S = {} THEN <<>>
    ELSE LET m == CHOOSE x \in S : \A y \in S : x <= y
         IN  <<m>> \o SortedList(S \ {m})

\* datetime.fromisoformat(s.replace('Z', '+00:00')) succeeds.
Parses(s) == s.form = "iso"

\* "if published_utc:" / "if date_str:": the string is neither None nor empty.
Given(s) == s.form # "empty"

\* strftime('%Y-%m-%d') of the parsed datetime: the day it names in its own
\* offset.
DateKey(ts) == ts.day

\* _build_inverted_indices: the ticker map, from row_meta.
BuildInvTicker(row_meta) ==
    LET keys == UNION {Range(row_meta[r].tickers) : r \in DOMAIN row_meta}
    IN  [t \in keys |-> {r \in DOMAIN row_meta : t \in Range(row_meta[r].tickers)}]

\* _build_inverted_indices: the date map, from row_meta; a row whose
\* timestamp is empty or does not parse is left out.
BuildInvDate(row_meta) ==
    LET dated == {r \in DOMAIN row_meta :
                     Given(row_meta[r].published_utc) /\ Parses(row_meta[r].published_utc)}
        keys  == {DateKey(row_meta[r].published_utc) : r \in dated}
    IN  [k \in keys |-> {r \in dated : DateKey(row_meta[r].published_utc) = k}]

\* A plausible slip: the date window narrows the ticker rows.
CandidateIntersection(s, tickers, published_utc, time_window_days) ==
    LET byTicker == UNION {s.inv_ticker[t] : t \in Range(tickers) \cap DOMAIN s.inv_ticker}
        byDate ==
            IF Given(published_utc) /\ Parses(published_utc)
            THEN UNION {s.inv_date[k] :
                        k \in {DateKey(published_utc) + i :
                               i \in (-time_window_days)..time_window_days}
                              \cap DOMAIN s.inv_date}
            ELSE {}
    IN  IF tickers # <<>> /\ Given(published_utc) /\ Parses(published_utc)
        THEN byTicker \cap byDate
        ELSE byTicker \cup byDate

\* _get_candidate_rows, steps 1 and 2: the rows of the requested tickers and
\* the rows of the days of the window, united.
CandidateUnion(s, tickers, published_utc, time_window_days) ==
    LET byTicker ==
            IF tickers # <<>>
            THEN UNION {s.inv_ticker[t] : t \in Range(tickers) \cap DOMAIN s.inv_ticker}
            ELSE {}
        byDate ==
            IF Given(published_utc) /\ Parses(published_utc)
            THEN UNION {s.inv_date[k] :
                        k \in {DateKey(published_utc) + i :
                               i \in (-time_window_days)..time_window_days}
                              \cap DOMAIN s.inv_date}
            ELSE {}
    IN  byTicker \cup byDate

\* A plausible slip: no fallback to all rows.
NoFallback(candidates, ntotal) == candidates

\* _get_candidate_rows, step 3: "if not candidates: all rows".
WithFallback(candidates, ntotal) ==
    IF candidates = {} THEN 0..(ntotal - 1) ELSE candidates

\* _get_candidate_rows, step 4: set(list(candidates)[:5000]).  The order in
\* which a set lists its elements is not defined, so the slice can be any
\* subset of the ceiling's size.
Truncations(candidates) ==
    IF Cardinality(candidates) > CandidateCap
    THEN {keep \in SUBSET candidates : Cardinality(keep) = CandidateCap}
    ELSE {candidates}

\* _get_candidate_rows: the lists it can return.
GetCandidateRows(s, tickers, published_utc, time_window_days) ==
    {SortedList(keep) :
        keep \in Truncations(
            WithFallback(CandidateUnion(s, tickers, published_utc, time_window_days),
                         s.ntotal))}

Dot(q, v) == q[1] * v[1] + q[2] * v[2]

\* faiss IndexFlatIP.search(q, k) over the vectors vs, for k <= Len(vs): the
\* positions of k vectors of largest inner product, by non-increasing score
\* (the order among equal scores is the library's).
FlatIPSearch(vs, q, k) ==
    {r \in [1..k -> 1..Len(vs)] :
        /\ \A a, b \in 1..k : a # b => r[a] # r[b]
        /\ \A a, b \in 1..k : a < b => Dot(q, vs[r[a]]) >= Dot(q, vs[r[b]])
        /\ \A j \in (1..Len(vs)) \ Range(r) :
              \A a \in 1..k : Dot(q, vs[j]) <= Dot(q, vs[r[a]])}

\* _search_candidates: the (distances, indices) pairs it can return, or the
\* error it raises.  An array is the sequence of its rows; np.array([]) has
\* none.  Without the embeddings matrix the call
\* index.reconstruct_n(0, candidate_rows) passes a list where faiss takes
\* a count, and raises.
SearchCandidates(s, query_vector, candidate_rows, top_k) ==
    IF candidate_rows = <<>>
    THEN {[kind |-> "ok", distances |-> <<>>, indices |-> <<>>]}
    ELSE IF ~s.vecs_is_none
    THEN LET candidate_vecs == [i \in 1..Len(candidate_rows) |-> s.vecs[candidate_rows[i]]]
             k == Min2(top_k, Len(candidate_rows))
         IN  {[kind      |-> "ok",
               distances |-> <<[i \in 1..k |-> Dot(query_vector, candidate_vecs[r[i]])]>>,
               indices   |-> <<[i \in 1..k |-> candidate_rows[r[i]]]>>] :
                 r \in FlatIPSearch(candidate_vecs, query_vector, k)}
    ELSE {[kind |-> "error", error |-> "TypeError"]}

\* Step 4 of search: "for dist, idx in zip(distances[0], indices[0])", with
\* the rows idx < len(row_meta) kept.  distances[0] of an array without rows
\* raises IndexError.
FormatResults(s, found) ==
    IF found.kind = "error" THEN found
    ELSE IF found.distances = <<>> \/ found.indices = <<>>
    THEN [kind |-> "error", error |-> "IndexError"]
    ELSE LET dist == found.distances[1]
             idxs == found.indices[1]
             keep == SelectSeq([i \in 1..Min2(Len(dist), Len(idxs)) |->
                                   [score |-> dist[i], row |-> idxs[i]]],
                               LAMBDA res : res.row < Cardinality(DOMAIN s.row_meta))
         IN  [kind |-> "ok", results |-> keep, total_results |-> Len(keep)]

\* The published artifacts a service can find: n rows of metadata and of
\* vectors; emb_ok tells whether the embeddings matrix can be downloaded.
\* manifest.json of an index of n rows: ntotal and dim as the index file has
\* them, or one more (a manifest that belongs to another index file).
Manifests(n) == [ntotal : {n, n + 1}, dim : {2, 3}]

\* The published artifacts whose rows carry ticker lists and timestamps of
\* the given sets.
ArtifactsOf(ticker_lists, stamps) ==
    UNION {[built      : {TRUE},
            manifest   : Manifests(n),
            index_dim  : {2},
            metadata   : [0..(n - 1) -> [tickers : ticker_lists, published_utc : stamps]],
            embeddings : EmbeddingMatrices(n),
            emb_ok     : BOOLEAN] : n \in 0..MaxRows}

Artifacts == ArtifactsOf(RowTickerLists, RowStamps)

\* Artifacts whose rows may also carry a ticker written in lower case and a
\* timestamp with a non-UTC offset: 23:00 of day 10 at UTC-2, which is 01:00
\* of day 11 in UTC.
LoadArtifacts ==
    ArtifactsOf(RowTickerLists \cup {<<"aapl">>}, RowStamps \cup {Stamp(10, 23, -2)})

\* str.upper on the tickers of the model.
Upper(t) == IF t = "aapl" THEN "AAPL" ELSE t

\* The calendar day of a parsed timestamp converted to UTC.
UtcDay(ts) == ts.day + ((ts.hour - ts.off) \div 24)

\* The manifest states the ntotal and the dim of the index file, as the
\* manifest build_index writes does.
ManifestMatches(a) ==
    /\ a.manifest.ntotal = Cardinality(DOMAIN a.embeddings)
    /\ a.manifest.dim = a.index_dim

\* The service before it loads artifacts that build_index published.
InitSearch ==
    /\ art \in {a \in Artifacts : ManifestMatches(a)}
    /\ svc = [loaded |-> FALSE]
    /\ req = [kind |-> "none"]
    /\ resp = [kind |-> "none"]

\* The service before it loads whatever latest.json points to.
InitLoad ==
    /\ art \in LoadArtifacts
    /\ svc = [loaded |-> FALSE]
    /\ req = [kind |-> "none"]
    /\ resp = [kind |-> "none"]

\* The fields of the service after _load_latest_artifacts read the
\* artifacts a.
LoadedService(a) ==
    [loaded     |-> TRUE,
     index      |-> a.embeddings,
     ntotal     |-> Cardinality(DOMAIN a.embeddings),
     d          |-> a.index_dim,
     config     |-> [dim |-> a.manifest.dim, ntotal |-> a.manifest.ntotal],
     vecs_is_none |-> ~a.emb_ok,
     vecs       |-> IF a.emb_ok THEN a.embeddings ELSE <<>>,
     row_meta   |-> a.metadata,
     inv_ticker |-> BuildInvTicker(a.metadata),
     inv_date   |-> BuildInvDate(a.metadata)]

\* SearchService.__init__ / _load_latest_artifacts
LoadLatestArtifacts ==
    /\ art.built
    /\ ~svc.loaded
    /\ svc' = LoadedService(art)
    /\ UNCHANGED <<art, req, resp>>

\* SearchService.search; the response of the model also records the candidate
\* rows the call worked on.
Search ==
    /\ svc.loaded
    /\ req.kind = "none"
    /\ \E r \in Requests :
         /\ req' = r
         /\ \E candidate_rows \in
                 (IF r.use_filter
                  THEN GetCandidateRows(svc, r.tickers, r.published_utc, r.time_window_days)
                  ELSE {SortedList(0..(svc.ntotal - 1))}) :
              \E found \in
                     (IF candidate_rows # <<>>
                      THEN SearchCandidates(svc, r.query_vector, candidate_rows, r.top_k)
                      ELSE {[kind |-> "ok", distances |-> <<>>, indices |-> <<>>]}) :
                 resp' = FormatResults(svc, found) @@ [candidate_rows |-> candidate_rows]
    /\ UNCHANGED <<art, svc>>

\* The response goes back to the caller; the service is ready for the next
\* request.
ReturnResponse ==
    /\ req.kind = "search"
    /\ req' = [kind |-> "none"]
    /\ resp' = [kind |-> "none"]
    /\ UNCHANGED <<art, svc>>

(***************************************************************************)
(*  Concurrent calls of SearchService.search on one service object, by     *)
(*  several threads: the steps of the calls interleave.  Each call has its *)
(*  own locals; the fields of the service are shared.                      *)
(***************************************************************************)

\* Bound of the model: the number of calls that run at the same time.
MaxCalls == 2

Callers == 1..MaxCalls

IdleCall == [pc |-> "idle"]

NoCalls == <<>>

\* The requests of the concurrent calls: without filter, by ticker, and by
\* ticker and date.
ConcurrentRequests ==
    {r \in Requests :
        /\ r.query_vector = <<1, 0>>
        /\ r.top_k = MaxTopK
        /\ r.time_window_days = 1
        /\ r.tickers = (IF r.use_filter THEN <<"AAPL">> ELSE <<>>)
        /\ r.published_utc \in {NoStamp, Stamp(11, 9, 0)}}

\* The artifacts the concurrent calls search: rows of alternating tickers,
\* the first two of day 10.
ConcurrentArtifacts ==
    {a \in Artifacts :
        /\ ManifestMatches(a)
        /\ \A r \in DOMAIN a.metadata :
              /\ a.metadata[r].tickers = (IF r % 2 = 0 THEN <<"AAPL">> ELSE <<"TSLA">>)
              /\ a.metadata[r].published_utc =
                    (IF r < 2 THEN Stamp(10, 12, 0) ELSE Stamp(20, 12, 0))}

InitConcurrent ==
    /\ art \in ConcurrentArtifacts
    /\ svc = [loaded |-> FALSE]
    /\ req = [kind |-> "none"]
    /\ resp = [kind |-> "none"]
    /\ calls = [c \in Callers |-> IdleCall]

\* A request arrives: search is entered, the query is embedded.
BeginSearch(c) ==
    /\ svc.loaded
    /\ calls[c].pc = "idle"
    /\ \E r \in ConcurrentRequests :
          calls' = [calls EXCEPT ![c] = [pc |-> "embedded", req |-> r]]
    /\ UNCHANGED <<art, svc, req, resp>>

\* A plausible slip: candidates is the set of the inverted index itself, not
\* a new set, so that update() adds the other rows to the index.
FilterCandidatesAliasing(c) ==
    /\ calls[c].pc = "embedded"
    /\ LET r == calls[c].req
           hit == Range(r.tickers) \cap DOMAIN svc.inv_ticker
       IN  /\ \E candidate_rows \in
                   (IF r.use_filter
                    THEN GetCandidateRows(svc, r.tickers, r.published_utc,
                                          r.time_window_days)
                    ELSE {SortedList(0..(svc.ntotal - 1))}) :
                calls' = [calls EXCEPT ![c] = [pc |-> "filtered", req |-> r,
                                               candidate_rows |-> candidate_rows]]
           /\ svc' = IF r.use_filter /\ hit # {}
                     THEN [svc EXCEPT !.inv_ticker =
                              [t \in DOMAIN svc.inv_ticker |->
                                  IF t \in hit
                                  THEN CandidateUnion(svc, r.tickers, r.published_utc,
                                                      r.time_window_days)
                                  ELSE svc.inv_ticker[t]]]
                     ELSE svc
    /\ UNCHANGED <<art, req, resp>>

\* Step 2 of search: _get_candidate_rows, or all the rows.
FilterCandidates(c) ==
    /\ calls[c].pc = "embedded"
    /\ LET r == calls[c].req
       IN  \E candidate_rows \in
                 (IF r.use_filter
                  THEN GetCandidateRows(svc, r.tickers, r.published_utc, r.time_window_days)
                  ELSE {SortedList(0..(svc.ntotal - 1))}) :
              calls' = [calls EXCEPT ![c] = [pc |-> "filtered", req |-> r,
                                             candidate_rows |-> candidate_rows]]
    /\ UNCHANGED <<art, svc, req, resp>>

\* Step 3 of search: _search_candidates on a temporary index of the call.
VectorSearch(c) ==
    /\ calls[c].pc = "filtered"
    /\ LET r == calls[c].req
           candidate_rows == calls[c].candidate_rows
       IN  \E found \in
                 (IF candidate_rows # <<>>
                  THEN SearchCandidates(svc, r.query_vector, candidate_rows, r.top_k)
                  ELSE {[kind |-> "ok", distances |-> <<>>, indices |-> <<>>]}) :
              calls' = [calls EXCEPT ![c] = [pc |-> "searched", req |-> r,
                                             candidate_rows |-> candidate_rows,
                                             found |-> found]]
    /\ UNCHANGED <<art, svc, req, resp>>

\* Step 4 of search: the results are formatted from row_meta and returned.
FormatAndReturn(c) ==
    /\ calls[c].pc = "searched"
    /\ calls' = [calls EXCEPT ![c] =
                    [pc |-> "done", req |-> calls[c].req,
                     resp |-> FormatResults(svc, calls[c].found)
                                @@ [candidate_rows |-> calls[c].candidate_rows]]]
    /\ UNCHANGED <<art, svc, req, resp>>

\* The thread is free for its next call.
NextRequest(c) ==
    /\ calls[c].pc = "done"
    /\ calls' = [calls EXCEPT ![c] = IdleCall]
    /\ UNCHANGED <<art, svc, req, resp>>

\* The responses search gives to the request r when it runs alone on the
\* service s.
AloneResponses(s, r) ==
    UNION {UNION {{FormatResults(s, found) @@ [candidate_rows |-> candidate_rows]} :
                     found \in (IF candidate_rows # <<>>
                                THEN SearchCandidates(s, r.query_vector, candidate_rows,
                                                      r.top_k)
                                ELSE {[kind |-> "ok", distances |-> <<>>,
                                       indices |-> <<>>]})} :
              candidate_rows \in (IF r.use_filter
                                  THEN GetCandidateRows(s, r.tickers, r.published_utc,
                                                        r.time_window_days)
                                  ELSE {SortedList(0..(s.ntotal - 1))})}

(***************************************************************************)
(*   Publication: IndexBuilder.build_index (build_index_aws.py) and        *)
(*   IncrementalIndexBuilder.build_incremental (build_index_incremental.py)*)
(*                                                                         *)
(* Timestamps are numbers (ISO strings of one format compare as the times  *)
(* they name); 0 stands for a missing value.  Every document of the model  *)
(* has a title and a long enough body and yields one chunk.  A version is  *)
(* a number, the clock reading its name is formatted from.                 *)
(***************************************************************************)

\* Bound of the model: the number of documents of the table.
MaxTableDocs == 3

\* Bound of the model: the largest limit a build is run with.
MaxLimit == 2

\* Bound of the model: the number of builds that are run.
MaxRuns == 3

\* published_utc and fetched_at of a document of the model.
TableStamps ==
    {[published_utc |-> 1, fetched_at |-> 1], [published_utc |-> 2, fetched_at |-> 2],
     [published_utc |-> 3, fetched_at |-> 3], [published_utc |-> 1, fetched_at |-> 3]}

\* The tables of the model: document d has doc_id d. The doc_ids are given in
\* the order of the timestamps, which the scan does not follow.
Tables ==
    {t \in [1..MaxTableDocs -> TableStamps] :
        \A d \in 1..(MaxTableDocs - 1) :
            \/ t[d].published_utc < t[d + 1].published_utc
            \/ /\ t[d].published_utc = t[d + 1].published_utc
               /\ t[d].fetched_at <= t[d + 1].fetched_at}

\* The objects a build uploads, in the order it uploads them.
ObjectKinds == <<"index", "chunks", "embeddings", "manifest">>

NoObjects == [objects |-> <<>>, latest |-> 0]

NoRun == [phase |-> "idle", builder |-> "none", version |-> 0, rows |-> <<>>,
          next |-> 0, last |-> "none", builds |-> 0, clock |-> 0, first_since |-> 0,
          rebuilt |-> FALSE]

\* The first documents a paginated scan delivers, up to limit of them: the
\* scan order is the table's, not one the builders choose.
FirstScanned(docs, limit) ==
    {T \in SUBSET docs : Cardinality(T) = Min2(limit, Cardinality(docs))}

\* The chunk-table row of document d: the full build writes no fetched_at
\* column, the incremental build does.
ChunkRow(tbl, d, with_fetched_at) ==
    [doc_id |-> d, chunk_index |-> 0,
     published_utc |-> tbl[d].published_utc,
     fetched_at |-> IF with_fetched_at THEN tbl[d].fetched_at ELSE 0]

\* The rows of the documents docs, in the order of their doc_id.
RowsOf(tbl, docs, with_fetched_at) ==
    LET ids == SortedList(docs)
    IN  [i \in 1..Len(ids) |-> ChunkRow(tbl, ids[i], with_fetched_at)]

\* _get_since_timestamp: the largest published_utc or fetched_at of the
\* existing chunk table.
SinceTimestamp(rows) ==
    LET timestamps == {rows[i].published_utc : i \in 1..Len(rows)}
                      \cup {rows[i].fetched_at : i \in 1..Len(rows)}
        valid == timestamps \ {0}
    IN  IF valid = {} THEN 0
        ELSE CHOOSE t \in valid : \A u \in valid : u <= t

\* The FilterExpression of _fetch_new_documents:
\* published_utc > :since_ts OR fetched_at > :since_ts.
NewDocuments(tbl, since_ts) ==
    {d \in DOMAIN tbl : tbl[d].published_utc > since_ts \/ tbl[d].fetched_at > since_ts}

\* _merge_with_existing: pd.concat of the existing and the new rows, sorted
\* by (doc_id, chunk_index).
MergeWithExisting(existing, new_rows) == SortByDocAndIndex(existing \o new_rows)

\* The key faiss/<version>/<file> of an object.
ObjectKey(version, kind) == <<version, kind>>

\* The object of the given kind of the version latest.json names exists.
LatestHas(s, kind) ==
    s.latest # 0 /\ ObjectKey(s.latest, kind) \in DOMAIN s.objects

\* The state before the first build: a table of documents, no objects.
InitPublish ==
    /\ table \in Tables
    /\ s3 = NoObjects
    /\ run = NoRun

\* The version of a new build is formatted from the clock, to the second:
\* the reading of the build before (the full build formats UTC, the
\* incremental build local time) or a later one.
NextVersions == {run.clock, run.clock + 1} \ {0}

\* build_index, steps 1 to 6: load up to limit documents, process them, write
\* the artifacts locally. run.first_since and run.rebuilt record the history:
\* the since-timestamp of the first incremental build, and whether a full
\* build was started after it.
StartFullBuild ==
    /\ run.phase = "idle"
    /\ run.builds < MaxRuns
    /\ \E limit \in 1..MaxLimit, version \in NextVersions :
         \E docs \in FirstScanned(DOMAIN table, limit) :
            run' = [run EXCEPT !.phase = "uploading", !.builder = "full",
                               !.version = version, !.clock = version,
                               !.rows = RowsOf(table, docs, FALSE),
                               !.next = 1, !.builds = @ + 1,
                               !.rebuilt = (run.first_since # 0)]
    /\ UNCHANGED <<table, s3>>

\* build_incremental, steps 1 to 9: read latest.json, the manifest and the
\* chunk table, fetch up to limit new documents, merge, write the artifacts
\* locally. The run ends at once when an object it needs is missing or when
\* there are no new documents.
StartIncremental ==
    /\ run.phase = "idle"
    /\ run.builds < MaxRuns
    /\ s3.latest # 0
    /\ IF ~(LatestHas(s3, "manifest") /\ LatestHas(s3, "chunks") /\ LatestHas(s3, "embeddings"))
       THEN run' = [run EXCEPT !.last = "failed", !.builds = @ + 1]
       ELSE LET existing == s3.objects[ObjectKey(s3.latest, "chunks")].rows
                since_ts == SinceTimestamp(existing)
                first    == IF run.first_since = 0 THEN since_ts ELSE run.first_since
                matching == NewDocuments(table, since_ts)
            IN  IF matching = {}
                THEN run' = [run EXCEPT !.last = "no_new_documents", !.builds = @ + 1,
                                        !.first_since = first]
                ELSE \E limit \in 1..MaxLimit, version \in NextVersions :
                       \E docs \in FirstScanned(matching, limit) :
                          run' = [run EXCEPT
                                     !.phase = "uploading", !.builder = "incremental",
                                     !.version = version, !.clock = version,
                                     !.rows = MergeWithExisting(existing,
                                                                RowsOf(table, docs, TRUE)),
                                     !.next = 1, !.builds = @ + 1,
                                     !.first_since = first]
    /\ UNCHANGED <<table, s3>>

\* s3.objects after the upload of one object of the running build.
PutObject(s, r) ==
    LET key == ObjectKey(r.version, ObjectKinds[r.next])
        obj == [rows |-> r.rows, build |-> r.builds]
    IN  [k \in DOMAIN s.objects \cup {key} |-> IF k = key THEN obj ELSE s.objects[k]]

\* _upload_to_s3 / _upload_new_artifacts, one file: the upload succeeds, or it
\* fails and the build ends, or (incremental build) the local file does not
\* exist and the loop goes on with a warning.
UploadObject ==
    /\ run.phase = "uploading"
    /\ run.next <= Len(ObjectKinds)
    /\ \/ /\ s3' = [s3 EXCEPT !.objects = PutObject(s3, run)]
          /\ run' = [run EXCEPT !.next = @ + 1]
       \/ /\ run' = [run EXCEPT !.phase = "idle", !.last = "failed"]
          /\ UNCHANGED s3
       \/ /\ run.builder = "incremental"
          /\ run' = [run EXCEPT !.next = @ + 1]
          /\ UNCHANGED s3
    /\ UNCHANGED table

\* _update_latest_pointer / the end of _upload_new_artifacts: latest.json is
\* written, or the write fails.
UpdateLatest ==
    /\ run.phase = "uploading"
    /\ run.next = Len(ObjectKinds) + 1
    /\ \/ /\ s3' = [s3 EXCEPT !.latest = run.version]
          /\ run' = [run EXCEPT !.phase = "idle", !.last = "published"]
       \/ /\ run' = [run EXCEPT !.phase = "idle", !.last = "failed"]
          /\ UNCHANGED s3
    /\ UNCHANGED table

(***************************************************************************)
(*                     FAISSStore  (faiss_store.py)                        *)
(***************************************************************************)

\* Bound of the model: the number of records a store holds.
MaxStoreRows == 3

\* Bound of the model: the number of vectors, and of metadata rows, of one
\* add_vectors call.
MaxBatch == 2

\* The dimension the stores of the model are constructed with (384 by default).
Dimension == 2

\* The vector arrays an add_vectors call is given: up to MaxBatch rows of the
\* store's dimension, neighbouring rows different, or one row of another
\* dimension.
VectorBatches ==
    {[i \in 1..n |-> IF (i + phase) % 2 = 0 THEN <<1, 0>> ELSE <<0, 1>>] :
        n \in 0..MaxBatch, phase \in {0, 1}}
    \cup {<< <<1, 0, 0>> >>}

\* The metadata lists an add_vectors call is given: row i of the list is the
\* record of the i-th chunk of the batch.
MetadataBatches == {[i \in 1..n |-> [chunk |-> i]] : n \in 0..MaxBatch}

EmptyStore == [vectors |-> <<>>, metadata |-> <<>>]

\* A plausible slip: the vectors are added before the lengths are compared.
AddVectorsCheckLate(st, vectors, metadata_list) ==
    IF Len(vectors) # Len(metadata_list)
    THEN [store |-> [st EXCEPT !.vectors = st.vectors \o vectors], error |-> "ValueError"]
    ELSE [store |-> [vectors  |-> st.vectors \o vectors,
                     metadata |-> st.metadata \o metadata_list],
          error |-> "none"]

\* A plausible slip: the new records are put in front of the old ones.
AddVectorsInFront(st, vectors, metadata_list) ==
    IF Len(vectors) # Len(metadata_list)
    THEN [store |-> st, error |-> "ValueError"]
    ELSE IF \E i \in 1..Len(vectors) : Len(vectors[i]) # Dimension
    THEN [store |-> st, error |-> "AssertionError"]
    ELSE [store |-> [vectors  |-> vectors \o st.vectors,
                     metadata |-> metadata_list \o st.metadata],
          error |-> "none"]

\* add_vectors: the store after the call and the error it raised. index.add
\* refuses an array whose rows do not have the index's dimension.
AddVectors(st, vectors, metadata_list) ==
    IF Len(vectors) # Len(metadata_list)
    THEN [store |-> st, error |-> "ValueError"]
    ELSE IF \E i \in 1..Len(vectors) : Len(vectors[i]) # Dimension
    THEN [store |-> st, error |-> "AssertionError"]
    ELSE [store |-> [vectors  |-> st.vectors \o vectors,
                     metadata |-> st.metadata \o metadata_list],
          error |-> "none"]

\* How a store operation ended, with the arguments it was called with.
Ended(op, vectors, metadata_list, error) ==
    [op |-> op, nvec |-> Len(vectors), nmeta |-> Len(metadata_list),
     vectors |-> vectors, metadata_list |-> metadata_list, error |-> error]

\* The rows of a flat index, one after the other, as faiss.write_index
\* stores them.
RECURSIVE Flatten(_)
Flatten(rows) ==
    IF rows = <<>> THEN <<>> ELSE Head(rows) \o Flatten(Tail(rows))

\* faiss.write_index: the file of an IndexFlatIP (d, ntotal, the row data).
WriteIndex(st) ==
    [d |-> Dimension, ntotal |-> Len(st.vectors), xb |-> Flatten(st.vectors)]

\* A plausible slip: the row data is read column by column.
ReadIndexByColumn(f) ==
    [i \in 1..f.ntotal |-> [j \in 1..f.d |-> f.xb[(j - 1) * f.ntotal + i]]]

\* faiss.read_index: row i of the index is the i-th run of d numbers.
ReadIndex(f) ==
    [i \in 1..f.ntotal |-> [j \in 1..f.d |-> f.xb[(i - 1) * f.d + j]]]

NoFiles == [exists |-> FALSE]

\* FAISSStore(index_dir) on a directory without index files.
InitStore ==
    /\ store = EmptyStore
    /\ disk = NoFiles
    /\ saved = EmptyStore
    /\ outcome = Ended("init", <<>>, <<>>, "none")

\* The call store.add_vectors(vectors, metadata_list).
AddVectorsCall ==
    \E vectors \in VectorBatches, metadata_list \in MetadataBatches :
        /\ AddVectors(store, vectors, metadata_list).error = "none" =>
               Len(store.vectors) + Len(vectors) <= MaxStoreRows
        /\ LET r == AddVectors(store, vectors, metadata_list)
           IN  /\ store' = r.store
               /\ outcome' = Ended("add_vectors", vectors, metadata_list, r.error)
        /\ UNCHANGED <<disk, saved>>

\* save_index: faiss.write_index and pickle.dump of the metadata.
SaveIndex ==
    /\ disk' = [exists |-> TRUE, index_file |-> WriteIndex(store),
                metadata_file |-> store.metadata]
    /\ saved' = store
    /\ outcome' = Ended("save_index", <<>>, <<>>, "none")
    /\ UNCHANGED store

\* A plausible slip: index.reset() without metadata.clear().
ClearIndexKeepsMetadata ==
    /\ store' = [store EXCEPT !.vectors = <<>>]
    /\ outcome' = Ended("clear_index", <<>>, <<>>, "none")
    /\ UNCHANGED <<disk, saved>>

\* clear_index: index.reset() and metadata.clear().
ClearIndex ==
    /\ store' = EmptyStore
    /\ outcome' = Ended("clear_index", <<>>, <<>>, "none")
    /\ UNCHANGED <<disk, saved>>

\* FAISSStore(index_dir) / _load_or_create_index: a new store object on the
\* same directory.
NewStore ==
    /\ store' = IF disk.exists
                THEN [vectors |-> ReadIndex(disk.index_file),
                      metadata |-> disk.metadata_file]
                ELSE EmptyStore
    /\ outcome' = Ended("init", <<>>, <<>>, "none")
    /\ UNCHANGED <<disk, saved>>

\* The filter_func arguments of the model: none, a filter that passes the
\* records of the first chunk of a batch, and one that passes every record.
FilterFuncs == {"none", "first_chunk", "any"}

Passes(filter_func, record) ==
    IF filter_func = "first_chunk" THEN record.chunk = 1 ELSE TRUE

\* The distance faiss reports for a neighbour that does not exist (the lowest
\* float, for an inner-product index).
MissingDistance == 0 - 1000

\* index.search(query_vector, k) of the store's IndexFlatIP: the k nearest
\* rows as (distance, index) pairs, indexes counted from 0.  When the index
\* holds fewer than k vectors the missing neighbours are reported with
\* index -1.
IndexSearch(st, query_vector, k) ==
    LET n == Len(st.vectors) IN
    {[i \in 1..k |->
         IF i <= n
         THEN [dist |-> Dot(query_vector, st.vectors[r[i]]), idx |-> r[i] - 1]
         ELSE [dist |-> MissingDistance, idx |-> -1]] :
        r \in FlatIPSearch(st.vectors, query_vector, Min2(k, n))}

\* metadata[idx] of a Python list: a negative idx counts from the end.
ListIndexOk(metadata, idx) == -Len(metadata) <= idx /\ idx < Len(metadata)
ListAt(metadata, idx) ==
    IF idx >= 0 THEN metadata[idx + 1] ELSE metadata[Len(metadata) + idx + 1]

\* FAISSStore.search: the (distance, index) pairs it returns, or the error it
\* raises.
StoreSearch(st, query_vector, k, filter_func) ==
    {IF filter_func = "none"
     THEN [error |-> "none", found |-> found]
     ELSE IF \E i \in 1..k :
                found[i].idx < Len(st.metadata) /\ ~ListIndexOk(st.metadata, found[i].idx)
     THEN [error |-> "IndexError", found |-> <<>>]
     ELSE [error |-> "none",
           found |-> SelectSeq(found,
                               LAMBDA f : /\ f.idx < Len(st.metadata)
                                          /\ Passes(filter_func, ListAt(st.metadata, f.idx)))] :
        found \in IndexSearch(st, query_vector, k)}

\* IndexingPipeline.search_similar: the results it formats from
\* store.search(query_embedding, k=top_k), each with the index it came from
\* and the record its fields were read from; any exception gives no results.
SearchSimilar(st, query_vector, top_k) ==
    {IF \E i \in 1..Len(r.found) :
            r.found[i].idx < Len(st.metadata) /\ ~ListIndexOk(st.metadata, r.found[i].idx)
     THEN <<>>
     ELSE LET kept == SelectSeq(r.found, LAMBDA f : f.idx < Len(st.metadata))
          IN  [i \in 1..Len(kept) |->
                  [idx |-> kept[i].idx, chunk_info |-> ListAt(st.metadata, kept[i].idx)]] :
        r \in StoreSearch(st, query_vector, top_k, "none")}

\* The call store.search(query_vector, k, filter_func).
StoreSearchCall ==
    /\ \E k \in 1..MaxTopK, filter_func \in FilterFuncs :
         \E r \in StoreSearch(store, <<1, 0>>, k, filter_func) :
            outcome' = [op |-> "search", k |-> k, filter_func |-> filter_func,
                        error |-> r.error, found |-> r.found]
    /\ UNCHANGED <<store, disk, saved>>

\* The call pipeline.search_similar(query, top_k) on the pipeline's store.
SearchSimilarCall ==
    /\ \E top_k \in 1..MaxTopK :
         \E results \in SearchSimilar(store, <<1, 0>>, top_k) :
            outcome' = [op |-> "search_similar", k |-> top_k, error |-> "none",
                        results |-> results]
    /\ UNCHANGED <<store, disk, saved>>

(***************************************************************************)
(*  Values of the variables of the components a specification leaves idle  *)
(***************************************************************************)
IdleChunk ==
    /\ cfg = [target |-> 2, max |-> 3, overlap |-> 0, min_tokens |-> 1]
    /\ body = <<>>
    /\ title = NoTitle
    /\ sents = <<>>
    /\ raw = <<>>
    /\ chunks = <<>>
    /\ cpc = "idle"

IdleBuild ==
    /\ scanned = <<>>
    /\ art = [built |-> FALSE]
    /\ bpc = "idle"

IdlePublish ==
    /\ table = <<>>
    /\ s3 = NoObjects
    /\ run = NoRun

IdleSearch ==
    /\ calls = NoCalls
    /\ svc = [loaded |-> FALSE]
    /\ req = [kind |-> "none"]
    /\ resp = [kind |-> "none"]

IdleStore == InitStore

(***************************************************************************)
(*  SpecChunk: split_text applied to every text and configuration of the   *)
(*  model                                                                  *)
(***************************************************************************)
InitChunkSpec == InitChunk /\ IdleBuild /\ IdlePublish /\ IdleSearch /\ IdleStore

NextChunk == DoSplitText /\ UNCHANGED <<buildVars, publishVars, searchVars, storeVars>>

SpecChunk == InitChunkSpec /\ [][NextChunk]_vars

\* The sentences of the text each have at most max_tokens tokens.
SentencesFit == \A i \in 1..Len(sents) : TokLen(sents[i]) <= cfg.max

\* C1: the chunks split_text returns carry the chunk_index values 0, 1, ..., n-1
\* in list order, whether or not orphan repair borrowed or merged.
C1_ChunkIndexContiguous ==
    cpc = "done" => \A i \in 1..Len(chunks) : chunks[i].chunk_index = i - 1

\* C1 witness: split_text returned three chunks after orphan repair borrowed
\* tokens from the penultimate chunk for the last one.
C1_Witness ==
    /\ cpc = "done"
    /\ Len(chunks) = 3
    /\ OrphanOutcome(cfg, raw) = "borrowed"
    /\ chunks[3].chunk_index = 2

\* C2: with a valid configuration and sentences of at most max_tokens tokens,
\* every returned chunk has at most max_tokens tokens, except possibly one
\* chunk that results from an orphan merge.
C2_ChunksWithinMax ==
    (cpc = "done" /\ ValidOrder(cfg) /\ SentencesFit) =>
        \A i \in 1..Len(chunks) :
            chunks[i].tokens > cfg.max =>
                (OrphanOutcome(cfg, raw) = "merged" /\ i = Len(chunks))

(***************************************************************************)
(*  SpecBuild: build_index over every scan order of the documents          *)
(***************************************************************************)
InitBuildSpec == InitBuild /\ IdleChunk /\ IdlePublish /\ IdleSearch /\ IdleStore

NextBuild ==
    \/ ScanDocument /\ UNCHANGED <<chunkVars, publishVars, searchVars, storeVars>>
    \/ BuildIndex /\ UNCHANGED <<chunkVars, publishVars, searchVars, storeVars>>

SpecBuild == InitBuildSpec /\ [][NextBuild]_vars

\* C3: in every index build_index produces, the metadata record with
\* row_index i describes the chunk (doc_id, chunk_index) whose text was
\* embedded into row i of the embeddings matrix and of the FAISS index.
C3_MetadataRowMatchesVector ==
    bpc = "built" =>
        \A i \in 1..Len(art.metadata) :
            \E j \in 1..Len(art.chunks) :
                /\ art.chunks[j].doc_id = art.metadata[i].doc_id
                /\ art.chunks[j].chunk_index = art.metadata[i].chunk_index
                /\ art.metadata[i].row_index = i - 1
                /\ art.embeddings[i] = Embed(art.chunks[j].text)
                /\ art.index[i] = Embed(art.chunks[j].text)

(***************************************************************************)
(*  SpecSearch: a service loads published artifacts and answers searches   *)
(***************************************************************************)
InitSearchSpec ==
    InitSearch /\ IdleChunk /\ scanned = <<>> /\ bpc = "idle" /\ IdlePublish /\ calls = NoCalls /\ IdleStore

NextSearch ==
    \/ LoadLatestArtifacts /\ UNCHANGED <<chunkVars, scanned, bpc, publishVars, calls, storeVars>>
    \/ Search /\ UNCHANGED <<chunkVars, scanned, bpc, publishVars, calls, storeVars>>
    \/ ReturnResponse /\ UNCHANGED <<chunkVars, scanned, bpc, publishVars, calls, storeVars>>

SpecSearch == InitSearchSpec /\ [][NextSearch]_vars

\* The last request went through _get_candidate_rows.
Filtered == req.kind = "search" /\ req.use_filter

\* The rows whose metadata lists one of the requested tickers.
TickerRows ==
    {r \in DOMAIN svc.row_meta :
        \E t \in Range(req.tickers) : t \in Range(svc.row_meta[r].tickers)}

\* The rows whose timestamp lies on a calendar day within time_window_days
\* of the day of the request's published_utc.
DateRows ==
    IF ~Parses(req.published_utc) THEN {}
    ELSE {r \in DOMAIN svc.row_meta :
            /\ Parses(svc.row_meta[r].published_utc)
            /\ DateKey(svc.row_meta[r].published_utc) - DateKey(req.published_utc)
                   \in (-req.time_window_days)..req.time_window_days}

AllRows == 0..(svc.ntotal - 1)

\* C4, as stated: whenever the result is non-empty and within the ceiling,
\* _get_candidate_rows returns exactly the union of the requested tickers'
\* rows and the date window's rows.
C4_ResultIsUnion ==
    (Filtered /\ resp.candidate_rows # <<>> /\ Len(resp.candidate_rows) <= CandidateCap) =>
        Range(resp.candidate_rows) = TickerRows \cup DateRows

\* C4, amended: whenever the union of the requested tickers' rows and the
\* date window's rows is non-empty and within the ceiling, _get_candidate_rows
\* returns exactly that union (a row matching only the date window included).
C4_UnionWhenNonEmpty ==
    (Filtered /\ TickerRows \cup DateRows # {}
              /\ Cardinality(TickerRows \cup DateRows) <= CandidateCap) =>
        resp.candidate_rows = SortedList(TickerRows \cup DateRows)

\* C4 witness: both filters given, and a returned row matches the date window
\* but none of the requested tickers, next to a row of a requested ticker.
C4_Witness ==
    /\ Filtered
    /\ req.tickers # <<>>
    /\ Parses(req.published_utc)
    /\ \E r \in Range(resp.candidate_rows) : r \in DateRows \ TickerRows
    /\ \E r \in Range(resp.candidate_rows) : r \in TickerRows \ DateRows
    /\ Range(resp.candidate_rows) = TickerRows \cup DateRows

\* C5: without filters, or with filters that match no row, _get_candidate_rows
\* yields all rows 0..ntotal-1, subject only to the ceiling; it never yields
\* an empty candidate set while the index is non-empty.
C5_FallbackToAllRows ==
    Filtered =>
        /\ (TickerRows \cup DateRows = {}) =>
              IF svc.ntotal <= CandidateCap
              THEN resp.candidate_rows = SortedList(AllRows)
              ELSE /\ Range(resp.candidate_rows) \subseteq AllRows
                   /\ Len(resp.candidate_rows) = CandidateCap
        /\ svc.ntotal > 0 => resp.candidate_rows # <<>>

\* C5 witness: a request for a ticker no row carries, on an index of two
\* rows, got both rows as candidates.
C5_Witness ==
    /\ Filtered
    /\ req.tickers = <<"MSFT">>
    /\ ~Given(req.published_utc)
    /\ svc.ntotal = 2
    /\ resp.candidate_rows = <<0, 1>>

\* The candidate set of the last request before the ceiling is applied.
Uncapped == IF TickerRows \cup DateRows = {} THEN AllRows ELSE TickerRows \cup DateRows

\* C6: when the candidate set exceeds the ceiling, _get_candidate_rows returns
\* exactly ceiling-many rows, the smallest row indices of the set.
C6_TruncatesAscending ==
    (Filtered /\ Cardinality(Uncapped) > CandidateCap) =>
        /\ Len(resp.candidate_rows) = CandidateCap
        /\ resp.candidate_rows = SubSeq(SortedList(Uncapped), 1, CandidateCap)

\* C7: search returns at most top_k results ordered by non-increasing score,
\* and exactly top_k results whenever top_k is at most the candidate-set size.
C7_TopKSorted ==
    req.kind = "search" =>
        /\ resp.kind = "ok"
        /\ Len(resp.results) <= req.top_k
        /\ \A a, b \in 1..Len(resp.results) :
              a < b => resp.results[a].score >= resp.results[b].score
        /\ req.top_k <= Len(resp.candidate_rows) => Len(resp.results) = req.top_k

\* C8: every result of search refers to a row of the candidate set and its
\* score is the inner product of the query vector with that row's embedding,
\* with the embeddings matrix loaded and without it.
C8_ResultsAreCandidates ==
    (req.kind = "search" /\ resp.candidate_rows # <<>>) =>
        /\ resp.kind = "ok"
        /\ resp.results # <<>>
        /\ \A i \in 1..Len(resp.results) :
              /\ resp.results[i].row \in Range(resp.candidate_rows)
              /\ resp.results[i].score = Dot(req.query_vector, svc.index[resp.results[i].row])

\* C9: when the candidate set is empty (the index holds no vector), search
\* returns an empty result list with total_results 0 and does not raise.
C9_EmptyIndexEmptyResult ==
    (req.kind = "search" /\ resp.candidate_rows = <<>>) =>
        /\ resp.kind = "ok"
        /\ resp.results = <<>>
        /\ resp.total_results = 0

(***************************************************************************)
(*  SpecStore: one index directory and the store objects working on it     *)
(***************************************************************************)
InitStoreSpec == InitStore /\ IdleChunk /\ IdleBuild /\ IdlePublish /\ IdleSearch

NextStore ==
    \/ AddVectorsCall /\ UNCHANGED <<chunkVars, buildVars, publishVars, searchVars>>
    \/ SaveIndex /\ UNCHANGED <<chunkVars, buildVars, publishVars, searchVars>>
    \/ ClearIndex /\ UNCHANGED <<chunkVars, buildVars, publishVars, searchVars>>
    \/ NewStore /\ UNCHANGED <<chunkVars, buildVars, publishVars, searchVars>>

SpecStore == InitStoreSpec /\ [][NextStore]_vars

\* C10: add_vectors called with len(vectors) # len(metadata_list) fails with
\* an error and leaves the store unchanged: neither the vector index nor the
\* metadata list gains a record.
C10_MismatchLeavesStoreUnchanged ==
    [][(outcome'.op = "add_vectors" /\ outcome'.nvec # outcome'.nmeta) =>
          (outcome'.error = "ValueError" /\ store' = store)]_vars

\* C10 witness: a store holding a record has rejected an add_vectors call of
\* two vectors with one metadata row, and still holds that one record.
C10_Witness ==
    /\ outcome.op = "add_vectors"
    /\ outcome.nvec = 2
    /\ outcome.nmeta = 1
    /\ outcome.error = "ValueError"
    /\ Len(store.vectors) = 1
    /\ Len(store.metadata) = 1

\* C11: after any sequence of store constructions (on an empty directory or
\* on saved files), add_vectors calls (accepted or rejected), save_index and
\* clear_index, the index holds as many vectors as the metadata list has
\* rows.
C11_IndexAndMetadataSameLength ==
    Len(store.vectors) = Len(store.metadata)

\* C11 witness: a store that shares its directory with a saved index of two
\* records holds one record and has just rejected an array of the wrong
\* dimension.
C11_Witness ==
    /\ disk.exists
    /\ disk.index_file.ntotal = 2
    /\ outcome.op = "add_vectors"
    /\ outcome.error = "AssertionError"
    /\ Len(store.vectors) = 1
    /\ Len(store.metadata) = 1

\* C12: an accepted add_vectors call of n records on a store of s records
\* leaves the records at rows 0..s-1 as they were and puts the new records
\* at rows s..s+n-1 in the order they were given.
C12_AppendsInOrder ==
    [][(outcome'.op = "add_vectors" /\ outcome'.error = "none") =>
          /\ Len(store'.vectors) = Len(store.vectors) + outcome'.nvec
          /\ Len(store'.metadata) = Len(store.metadata) + outcome'.nmeta
          /\ \A i \in 1..Len(store.vectors) :
                /\ store'.vectors[i] = store.vectors[i]
                /\ store'.metadata[i] = store.metadata[i]
          /\ \A k \in 1..outcome'.nvec :
                /\ store'.vectors[Len(store.vectors) + k] = outcome'.vectors[k]
                /\ store'.metadata[Len(store.metadata) + k] = outcome'.metadata_list[k]]_vars

\* C12 witness: two different vectors were added, in this order, to a store
\* that held one record; they are at rows 1 and 2.
C12_Witness ==
    /\ outcome.op = "add_vectors"
    /\ outcome.error = "none"
    /\ outcome.vectors = << <<0, 1>>, <<1, 0>> >>
    /\ Len(store.vectors) = 3
    /\ store.vectors[1] = <<1, 0>>
    /\ store.vectors[2] = <<0, 1>>
    /\ store.vectors[3] = <<1, 0>>
    /\ store.metadata = <<[chunk |-> 1], [chunk |-> 1], [chunk |-> 2]>>

C20_NewStoreCountsOnlyAdded ==
    [][(outcome.op = "init" /\ outcome'.op = "add_vectors" /\ outcome'.error = "none") =>
          Len(store'.vectors) = outcome'.nvec]_vars

(***************************************************************************)
(*  SpecLoad: a service loads the artifacts latest.json points to, with a  *)
(*  manifest that agrees with the index file or not                        *)
(***************************************************************************)
InitLoadSpec ==
    InitLoad /\ IdleChunk /\ scanned = <<>> /\ bpc = "idle" /\ IdlePublish /\ calls = NoCalls /\ IdleStore

NextLoad == LoadLatestArtifacts /\ UNCHANGED <<chunkVars, scanned, bpc, publishVars, calls, storeVars>>

SpecLoad == InitLoadSpec /\ [][NextLoad]_vars

\* C14: _load_latest_artifacts raises, and no index is served, whenever the
\* ntotal or the dim of the manifest differs from the ntotal or the dimension
\* of the index file it loads.
C14_LoadFailsOnManifestMismatch ==
    svc.loaded => (svc.config.ntotal = svc.ntotal /\ svc.config.dim = svc.d)

(***************************************************************************)
(*  More claims under SpecChunk                                            *)
(***************************************************************************)

\* C15: a TextChunker whose parameters violate
\* 0 <= overlap < min_tokens <= target <= max is rejected at construction: no
\* chunker with such parameters exists, and none splits a text.
C15_InvalidOrderRejected ==
    cpc = "done" => ValidOrder(cfg)

\* C16: split_text returns an empty list whenever the text is empty or
\* consists of whitespace only, for every title argument.
C16_BlankTextNoChunks ==
    (cpc = "done" /\ IsBlankText(body)) => chunks = <<>>

\* The text has exactly two sentences, max_tokens is the token length of the
\* first one, overlap_tokens is 0 and the configuration is in the required
\* order.
TwoSentenceScenario ==
    /\ cpc = "done"
    /\ ~title.given
    /\ Len(sents) = 2
    /\ TokLen(sents[1]) = cfg.max
    /\ cfg.overlap = 0
    /\ ValidOrder(cfg)

C19_ConsecutiveChunksOverlap ==
    (cpc = "done" /\ cfg.overlap > 0 /\ ValidOrder(cfg)) =>
        \A i \in 1..(Len(chunks) - 1) :
            LET tail == TailTokens(chunks[i].text, cfg.overlap)
            IN  /\ Len(chunks[i + 1].text) >= Len(tail)
                /\ SubSeq(chunks[i + 1].text, 1, Len(tail)) = tail

(***************************************************************************)
(*  SpecOrphan: _handle_orphan_chunks and the renumbering applied to every *)
(*  chunk list and configuration of the model                              *)
(***************************************************************************)
InitOrphanSpec == InitOrphan /\ IdleBuild /\ IdlePublish /\ IdleSearch /\ IdleStore

NextOrphan == DoOrphanRepair /\ UNCHANGED <<buildVars, publishVars, searchVars, storeVars>>

SpecOrphan == InitOrphanSpec /\ [][NextOrphan]_vars

\* The chunks before orphan repair are at least two, the last one has fewer
\* than min_tokens tokens, the one before it has at least min_tokens tokens
\* above the safety floor, and the two together have at most max_tokens
\* tokens.
MergeCase ==
    /\ cpc = "done"
    /\ Len(raw) >= 2
    /\ raw[Len(raw)].tokens < cfg.min_tokens
    /\ raw[Len(raw) - 1].tokens >=
           Max2(0, cfg.target - SafeFloorMargin) + cfg.min_tokens
    /\ raw[Len(raw) - 1].tokens + raw[Len(raw)].tokens <= cfg.max

C21_TickerKeysUpperCase ==
    svc.loaded =>
        /\ \A k \in DOMAIN svc.inv_ticker : Upper(k) = k
        /\ \A r \in DOMAIN svc.row_meta :
              \A t \in Range(svc.row_meta[r].tickers) :
                  /\ Upper(t) \in DOMAIN svc.inv_ticker
                  /\ r \in svc.inv_ticker[Upper(t)]

\* C22: every row with a parseable published_utc is indexed in the date map
\* under exactly one key, the calendar day of its timestamp converted to UTC,
\* also when the timestamp carries a non-UTC offset.
C22_DateKeyIsUtcDay ==
    svc.loaded =>
        \A r \in DOMAIN svc.row_meta :
            Parses(svc.row_meta[r].published_utc) =>
                \A k \in DOMAIN svc.inv_date :
                    r \in svc.inv_date[k] <=> k = UtcDay(svc.row_meta[r].published_utc)

(***************************************************************************)
(*  SpecPublish: full and incremental builds publish versions of the index *)
(***************************************************************************)
InitPublishSpec == InitPublish /\ IdleChunk /\ IdleBuild /\ IdleSearch /\ IdleStore

NextPublish ==
    \/ StartFullBuild /\ UNCHANGED <<chunkVars, buildVars, searchVars, storeVars>>
    \/ StartIncremental /\ UNCHANGED <<chunkVars, buildVars, searchVars, storeVars>>
    \/ UploadObject /\ UNCHANGED <<chunkVars, buildVars, searchVars, storeVars>>
    \/ UpdateLatest /\ UNCHANGED <<chunkVars, buildVars, searchVars, storeVars>>

SpecPublish == InitPublishSpec /\ [][NextPublish]_vars

\* C23: latest.json is changed to name a version only after the index,
\* chunk-metadata, embeddings and manifest objects of that version have all
\* been uploaded, and no object that exists is overwritten, under both
\* builders.
C23_LatestNamesCompleteVersion ==
    [][/\ s3'.latest # s3.latest =>
             \A i \in 1..Len(ObjectKinds) :
                 ObjectKey(s3'.latest, ObjectKinds[i]) \in DOMAIN s3'.objects
       /\ \A k \in DOMAIN s3.objects : s3'.objects[k] = s3.objects[k]]_vars

\* The chunk table latest.json leads to.
PublishedRows ==
    IF LatestHas(s3, "chunks") THEN s3.objects[ObjectKey(s3.latest, "chunks")].rows
    ELSE <<>>

\* C29: in the published chunk table no chunk (doc_id, chunk_index) occurs
\* more than once, after full builds followed by any number of incremental
\* builds.
C29_NoDuplicateChunks ==
    ~run.rebuilt =>
    \A i, j \in 1..Len(PublishedRows) :
        (PublishedRows[i].doc_id = PublishedRows[j].doc_id
            /\ PublishedRows[i].chunk_index = PublishedRows[j].chunk_index) => i = j

\* C30: once an incremental build finds no new documents (and so will every
\* later one while no document is added and no full build is run), every
\* document with a timestamp later than the since-timestamp of the first
\* incremental build is in the published chunk table.
C30_AllNewDocumentsIndexed ==
    (run.phase = "idle" /\ run.last = "no_new_documents" /\ ~run.rebuilt) =>
        \A d \in NewDocuments(table, run.first_since) :
            \E i \in 1..Len(PublishedRows) : PublishedRows[i].doc_id = d

(***************************************************************************)
(*  SpecConcurrent: search calls of several worker threads, interleaved    *)
(***************************************************************************)
InitConcurrentSpec ==
    InitConcurrent /\ IdleChunk /\ scanned = <<>> /\ bpc = "idle" /\ IdlePublish /\ IdleStore

NextConcurrent ==
    \/ LoadLatestArtifacts /\ UNCHANGED <<chunkVars, scanned, bpc, publishVars, calls, storeVars>>
    \/ \E c \in Callers :
          BeginSearch(c) /\ UNCHANGED <<chunkVars, scanned, bpc, publishVars, storeVars>>
    \/ \E c \in Callers :
          FilterCandidates(c) /\ UNCHANGED <<chunkVars, scanned, bpc, publishVars, storeVars>>
    \/ \E c \in Callers :
          VectorSearch(c) /\ UNCHANGED <<chunkVars, scanned, bpc, publishVars, storeVars>>
    \/ \E c \in Callers :
          FormatAndReturn(c) /\ UNCHANGED <<chunkVars, scanned, bpc, publishVars, storeVars>>
    \/ \E c \in Callers :
          NextRequest(c) /\ UNCHANGED <<chunkVars, scanned, bpc, publishVars, storeVars>>

SpecConcurrent == InitConcurrentSpec /\ [][NextConcurrent]_vars

\* C24: search changes none of index, vecs, row_meta, inv_ticker and
\* inv_date, so the fields stay as they were loaded, and under every
\* interleaving of concurrent calls each call returns a response that the
\* same request gets when it runs alone.
C24_ConcurrentSearchAsAlone ==
    /\ svc.loaded => svc = LoadedService(art)
    /\ \A c \in Callers :
          calls[c].pc = "done" =>
              calls[c].resp \in AloneResponses(LoadedService(art), calls[c].req)

\* Two calls have finished side by side, one of them filtered by ticker and
\* date, and both have results.
C24_Witness ==
    /\ \A c \in Callers :
          /\ calls[c].pc = "done"
          /\ calls[c].resp.kind = "ok"
          /\ calls[c].resp.total_results > 0
    /\ \E c \in Callers :
          /\ calls[c].req.use_filter
          /\ calls[c].req.tickers = <<"AAPL">>
          /\ calls[c].req.published_utc = Stamp(11, 9, 0)
          /\ Len(calls[c].resp.candidate_rows) > 1

(***************************************************************************)
(*  More claims under SpecOrphan                                           *)
(***************************************************************************)

HoldsWhole(text, s) ==
    \E k \in 0..(Len(text) - Len(s)) : SubSeq(text, k + 1, k + Len(s)) = s

\* C26: no sentence is sub-split: every sentence of the sentence splitter is
\* whole, its tokens in a row, in at least one chunk split_text returns.
C26_NoSentenceSubSplit ==
    (cpc = "done" /\ ValidOrder(cfg)) =>
        \A i \in 1..Len(sents) :
            \E j \in 1..Len(chunks) : HoldsWhole(chunks[j].text, sents[i])

\* The texts of the chunks cs from the i-th on, one after the other.
RECURSIVE TextsFrom(_, _)
TextsFrom(cs, i) ==
    IF i > Len(cs) THEN <<>> ELSE cs[i].text \o TextsFrom(cs, i + 1)

\* C27: no content is lost by chunking: every token of every sentence of the
\* cleaned, title-prefixed text is in at least one returned chunk, and orphan
\* repair leaves the chunks before the last two as they were and the text of
\* the last two, taken together, as it was.
C27_NoContentLost ==
    cpc = "done" =>
        /\ \A i \in 1..Len(sents) : \A k \in 1..Len(sents[i]) :
              \E j \in 1..Len(chunks) : sents[i][k] \in Range(chunks[j].text)
        /\ Len(raw) >= 2 =>
              /\ \A i \in 1..(Len(raw) - 2) : chunks[i].text = raw[i].text
              /\ TextsFrom(chunks, Len(raw) - 1) = TextsFrom(raw, Len(raw) - 1)
        /\ Len(raw) < 2 => Len(chunks) = Len(raw)

(***************************************************************************)
(*  SpecStoreSearch: a store is filled and searched                        *)
(***************************************************************************)
NextStoreSearch ==
    \/ AddVectorsCall /\ UNCHANGED <<chunkVars, buildVars, publishVars, searchVars>>
    \/ StoreSearchCall /\ UNCHANGED <<chunkVars, buildVars, publishVars, searchVars>>
    \/ SearchSimilarCall /\ UNCHANGED <<chunkVars, buildVars, publishVars, searchVars>>

SpecStoreSearch == InitStoreSpec /\ [][NextStoreSearch]_vars

\* C28: every index FAISSStore.search returns, with or without filter_func,
\* is at least 0 and less than the number of stored records, also when k
\* exceeds the number of stored vectors, and every result of search_similar
\* comes from such an index.
C28_SearchIndicesInRange ==
    /\ (outcome.op = "search" /\ outcome.error = "none") =>
          \A i \in 1..Len(outcome.found) :
              0 <= outcome.found[i].idx /\ outcome.found[i].idx < Len(store.metadata)
    /\ outcome.op = "search_similar" =>
          \A i \in 1..Len(outcome.results) :
              0 <= outcome.results[i].idx /\ outcome.results[i].idx < Len(store.metadata)

====
